---------------------------- MODULE Spec2Model ----------------------------
(***************************************************************************)
(* Model of pi_dht_read.c: the DHT11/DHT22 reader for the Raspberry Pi.    *)
(*                                                                         *)
(*   dht_read      the orchestrator: argument check, MMIO init, the lock    *)
(*                 file, ten attempts with a one second backoff            *)
(*   pi_dht_read   one attempt: start sequence, 84 transition waits,       *)
(*                 threshold compensation, bit extraction, checksum,       *)
(*                 interpretation by sensor type                           *)
(*                                                                         *)
(* uint32_t values are pairs <<hi, lo>> of 16-bit halves, so that every    *)
(* sum, difference and product wraps at 2^32 exactly as in the C code.     *)
(* Humidity and temperature are kept in tenths (the float 12.3 is 123).    *)
(***************************************************************************)
EXTENDS Integers, Sequences, FiniteSets, TLC

(***************************************************************************)
(* uint32_t arithmetic                                                     *)
(***************************************************************************)
Half == 2^16

U32(n) == <<n \div Half, n % Half>>

UINT32_MAX == <<Half - 1, Half - 1>>

Zero32 == <<0, 0>>

Add32(a, b) ==
    LET lo == a[2] + b[2]
        hi == a[1] + b[1] + (lo \div Half)
    IN  <<hi % Half, lo % Half>>

Sub32(a, b) ==
    LET lo     == a[2] - b[2]
        borrow == IF lo < 0 THEN 1 ELSE 0
        hi     == a[1] - b[1] - borrow
    IN  <<(hi + Half) % Half, (lo + Half) % Half>>

Lt32(a, b) == a[1] < b[1] \/ (a[1] = b[1] /\ a[2] < b[2])

Ge32(a, b) == ~Lt32(a, b)

\* a / n for a small divisor n (long division on the two halves)
Div32(a, n) ==
    LET r == a[1] % n
    IN  <<a[1] \div n, (r * Half + a[2]) \div n>>

(***************************************************************************)
(* Program constants                                                       *)
(***************************************************************************)
MAX_WAIT_US == 400

DHT_BYTES == 5

DHT_PULSES == 1 + DHT_BYTES * 8

DHT11 == 11

DHT22 == 22

\* int count = 10 in dht_read
RETRY_COUNT == 10

NULL == "NULL"

Procs == {"p1", "p2"}

NoProc == "none"

\* any other program that takes the flock on the lock file
Other == "other"


(***************************************************************************)
(* The sensor, as the comments of pi_dht_read.c describe it: a constant    *)
(* 80 us first pulse, then 40 data pulses of a ~50 us low followed by a    *)
(* ~28 us high (bit 0) or a ~70 us high (bit 1).                           *)
(***************************************************************************)
MARKER_US == 80

LOW_US == 50

ZERO_US == 28

ONE_US == 70

LowIdx == 0 .. DHT_PULSES

HighIdx == 0 .. (DHT_PULSES - 1)

DataIdx == 1 .. (DHT_PULSES - 1)

\* bit of the payload (a 5-tuple of bytes) that pulse i, 1..40, carries
PayloadBit(payload, i) ==
    LET k == (i - 1) \div 8
        j == (i - 1) % 8
    IN  (payload[k + 1] \div (2 ^ (7 - j))) % 2

\* the pulse widths of an undisturbed transmission of payload
SensorFrame(payload) ==
    [low  |-> [i \in LowIdx |-> IF i = 0 THEN U32(MARKER_US) ELSE U32(LOW_US)],
     high |-> [i \in HighIdx |->
                 IF i = 0 THEN U32(MARKER_US)
                 ELSE IF PayloadBit(payload, i) = 1 THEN U32(ONE_US)
                 ELSE U32(ZERO_US)]]

\* every pulse width equal to w
FlatFrame(w) ==
    [low |-> [i \in LowIdx |-> U32(w)], high |-> [i \in HighIdx |-> U32(w)]]

\* the process was interrupted while waiting for the high of pulse i: the
\* transition is seen d us late, low[i] grows and high[i] shrinks by d
LateHigh(f, i, d) ==
    [low  |-> [f.low EXCEPT ![i] = Add32(@, U32(d))],
     high |-> [f.high EXCEPT ![i] = Sub32(@, U32(d))]]

\* interrupted while waiting for the low that ends pulse i: high[i] grows
\* and the following low shrinks by d
LateLow(f, i, d) ==
    [low  |-> [f.low EXCEPT ![i + 1] = Sub32(@, U32(d))],
     high |-> [f.high EXCEPT ![i] = Add32(@, U32(d))]]

\* the process was stopped for v us while pulse i was high
Stall(f, i, v) == [f EXCEPT !.high[i] = v]

Payloads ==
    { <<60, 0, 25, 0, 85>>,        \* DHT11 60 %, 25 C
      <<2, 140, 128, 50, 64>>,     \* DHT22 65.2 %, -5.0 C (sum 320)
      <<1, 244, 0, 215, 204>>,     \* DHT22 50.0 %, 21.5 C (sum 460)
      <<255, 255, 255, 255, 252>>, \* sum 1020
      <<0, 0, 0, 0, 0>>,
      <<60, 0, 25, 0, 86>>,        \* checksum off by one
      <<2, 140, 128, 50, 65>>,     \* checksum off by one
      <<200, 100, 0, 0, 45>> }     \* sum 300, low byte 44

JitterIdx == {1, 8, 9, DHT_PULSES - 1}

JitterUs == {20, 40}

FlatWidths == {0, 1, 50}

StallUs == {UINT32_MAX, <<Half \div 2, 0>>, Sub32(Zero32, U32(LOW_US))}

CleanFrames == {SensorFrame(pl) : pl \in Payloads}

JitterFrames ==
    {LateHigh(f, i, d) : f \in CleanFrames, i \in JitterIdx, d \in {20}}
    \cup {LateLow(f, i, d) : f \in CleanFrames, i \in JitterIdx, d \in JitterUs}
    \cup {LateHigh(f, i, 40) :
            f \in {g \in CleanFrames : g.high[DHT_PULSES - 1] = U32(ONE_US)},
            i \in {DHT_PULSES - 1}}

\* one interruption in each direction, in neighbouring pulses
DoubleJitterFrames ==
    {LateLow(LateHigh(f, 9, 20), 8, d) : f \in CleanFrames, d \in JitterUs}

StallFrames ==
    {Stall(f, i, v) : f \in CleanFrames, i \in {1, DHT_PULSES - 1}, v \in StallUs}

\* the process was stopped during the last wait, the one for the release
\* of the line: the last low is recorded v us long
StallRelease(f, v) == [f EXCEPT !.low[DHT_PULSES] = v]

ReleaseStallUs == {Sub32(Zero32, U32(16)), U32(300)}

ReleaseStallFrames == {StallRelease(f, v) : f \in CleanFrames, v \in ReleaseStallUs}

DecodeFrames ==
    CleanFrames \cup JitterFrames \cup DoubleJitterFrames \cup StallFrames
    \cup ReleaseStallFrames
    \cup {FlatFrame(w) : w \in FlatWidths}

(***************************************************************************)
(* Threshold compensation and decoding (pi_dht_read, second half)          *)
(***************************************************************************)
\* The loops over the pulses are split in halves, the left half computed
\* (CHOOSE over a one-element set) before the right half starts from it: the
\* pulses are still visited in index order, in a recursion of depth 6.

\* lowMicros[from] + ... + lowMicros[to], modulo 2^32
RECURSIVE SumLow(_, _, _)
SumLow(low, from, to) ==
    IF from = to THEN low[from]
    ELSE LET mid == (from + to) \div 2
         IN  Add32(SumLow(low, from, mid), SumLow(low, mid + 1, to))

\* threshold = (lowMicros[1] + ... + lowMicros[40]) / (DHT_PULSES - 1)
Threshold(low) == Div32(SumLow(low, 1, DHT_PULSES - 1), DHT_PULSES - 1)

\* the body of the adjust loop for one index i; st = [low, high, need]
AdjustStep(st, i, threshold) ==
    LET lowHighThreshold == Add32(threshold, threshold)
    IN  IF Lt32(st.high[i], threshold)
        THEN LET lowHigh == Add32(st.low[i], st.high[i])
             IN  IF Ge32(lowHigh, lowHighThreshold)
                 THEN [low  |-> [st.low EXCEPT ![i] = threshold],
                       high |-> [st.high EXCEPT
                                   ![i] = Add32(@, Sub32(st.low[i], threshold))],
                       need |-> TRUE]
                 ELSE st
        ELSE LET lowHigh == Add32(st.high[i], st.low[i + 1])
             IN  IF Lt32(lowHigh, lowHighThreshold)
                 THEN [low  |-> [st.low EXCEPT ![i + 1] = threshold],
                       high |-> [st.high EXCEPT
                                   ![i] = Add32(@, Sub32(st.low[i + 1], threshold))],
                       need |-> TRUE]
                 ELSE st

\* for (i = from; i <= to; i++) the body above, in index order
RECURSIVE AdjustLoop(_, _, _, _)
AdjustLoop(st, from, to, threshold) ==
    IF from = to THEN AdjustStep(st, from, threshold)
    ELSE LET mid == (from + to) \div 2
         IN  CHOOSE r \in {AdjustLoop(left, mid + 1, to, threshold) :
                             left \in {AdjustLoop(st, from, mid, threshold)}} : TRUE

\* AdjustPass that never asks for another pass
AdjustPass_SinglePass(low, high) ==
    CHOOSE r \in {[AdjustLoop([low |-> low, high |-> high, need |-> FALSE],
                              1, DHT_PULSES - 1, t) EXCEPT !.need = FALSE] :
                    t \in {Threshold(low)}} : TRUE

\* one pass of the while (needAdjust) loop
AdjustPass(low, high) ==
    CHOOSE r \in {AdjustLoop([low |-> low, high |-> high, need |-> FALSE],
                             1, DHT_PULSES - 1, t) : t \in {Threshold(low)}} : TRUE

NoData == [k \in 0 .. (DHT_BYTES - 1) |-> 0]

\* ExtractStep that fills each byte from its low end
ExtractStep_LittleEndian(data, i, high, threshold) ==
    LET index   == (i - 1) \div 8
        shifted == data[index] \div 2
        bit     == IF Ge32(high[i], threshold) THEN 128 ELSE 0
    IN  [data EXCEPT ![index] = shifted + bit]

\* the body of the extraction loop for one index i
ExtractStep(data, i, high, threshold) ==
    LET index   == (i - 1) \div 8
        shifted == (data[index] * 2) % 256
        bit     == IF Ge32(high[i], threshold) THEN 1 ELSE 0
    IN  [data EXCEPT ![index] = shifted + bit]

\* for (i = from; i <= to; i++) the body above, in index order
RECURSIVE ExtractLoop(_, _, _, _, _)
ExtractLoop(data, from, to, high, threshold) ==
    IF from = to THEN ExtractStep(data, from, high, threshold)
    ELSE LET mid == (from + to) \div 2
         IN  CHOOSE r \in {ExtractLoop(left, mid + 1, to, high, threshold) :
                             left \in {ExtractLoop(data, from, mid, high, threshold)}} : TRUE

ExtractBits(high, threshold) == ExtractLoop(NoData, 1, DHT_PULSES - 1, high, threshold)

\* the checksum test without & 0xFF
ChecksumOk_NoMask(data) == data[4] = data[0] + data[1] + data[2] + data[3]

ChecksumOk(data) == data[4] = (data[0] + data[1] + data[2] + data[3]) % 256

\* Interpret that takes all of byte 2 for the magnitude and never negates
Interpret_Unsigned(type, data) ==
    IF type = DHT11 THEN <<data[0] * 10, data[2] * 10>>
    ELSE IF type = DHT22
    THEN <<data[0] * 256 + data[1], data[2] * 256 + data[3]>>
    ELSE <<0, 0>>

\* the reading in tenths, <<humidity, temperature>>
Interpret(type, data) ==
    IF type = DHT11 THEN <<data[0] * 10, data[2] * 10>>
    ELSE IF type = DHT22
    THEN LET magnitude == (data[2] % 128) * 256 + data[3]
         IN  <<data[0] * 256 + data[1],
               IF data[2] \div 128 = 1 THEN 0 - magnitude ELSE magnitude>>
    ELSE <<0, 0>>

(***************************************************************************)
(* Transition waiter                                                       *)
(***************************************************************************)
\* getTransitionMicros that returns the reading as it is, 0 included
getTransitionMicros_NoSubstitution(startedMicros, checkedAt, seenAt) ==
    LET elapsedMicros == Sub32(checkedAt, startedMicros)
    IN  IF Ge32(elapsedMicros, U32(MAX_WAIT_US)) THEN Zero32 ELSE seenAt

\* getTransitionMicros that compares the reading with startedMicros + MAX_WAIT_US
\* instead of the elapsed time with MAX_WAIT_US
getTransitionMicros_AbsoluteDeadline(startedMicros, checkedAt, seenAt) ==
    IF Ge32(checkedAt, Add32(startedMicros, U32(MAX_WAIT_US))) THEN Zero32
    ELSE IF seenAt = Zero32 THEN UINT32_MAX ELSE seenAt

\* getTransitionMicros, given the three timer readings that decide it:
\*   startedMicros  the reading taken before the polling loop
\*   checkedAt      the latest reading the loop compared with startedMicros
\*                  while the level was still wrong (startedMicros if none)
\*   seenAt         the reading taken once the level was seen
getTransitionMicros(startedMicros, checkedAt, seenAt) ==
    LET elapsedMicros == Sub32(checkedAt, startedMicros)
    IN  IF Ge32(elapsedMicros, U32(MAX_WAIT_US)) THEN Zero32
        ELSE IF seenAt = Zero32 THEN UINT32_MAX ELSE seenAt

(***************************************************************************)
(* State                                                                   *)
(***************************************************************************)
VARIABLES
    pc,             \* per process: the statement it is at
    type,           \* per process: argument type
    pHumidity,      \* per process: argument pHumidity, NULL or "valid"
    pTemperature,   \* per process: argument pTemperature, NULL or "valid"
    humidity,       \* per process: the caller's float *pHumidity, in tenths
    temperature,    \* per process: the caller's float *pTemperature, in tenths
    success,        \* per process: dht_read's success
    count,          \* per process: dht_read's count
    lockfd,         \* per process: dht_read's lockfd
    mmio,           \* per process: "unused", "ok" or "failed" (pi_mmio_init)
    priority,       \* per process: "default" or "max"
    i,              \* per process: pi_dht_read's i
    lowStartedUs,   \* per process
    highStartedUs,  \* per process
    lowMicros,      \* per process: uint32_t lowMicros[DHT_PULSES + 1]
    highMicros,     \* per process: uint32_t highMicros[DHT_PULSES]
    threshold,      \* per process
    data,           \* per process: uint8_t data[DHT_BYTES]
    log,            \* per process: the last DHT_READ_LOG line of this attempt
    lockOwner,      \* the process whose descriptor holds the flock, or NoProc
    lockfileOk,     \* whether open() of the lock file succeeds on this host
    fdsOpen,        \* per process: open descriptors on the lock file
    now,            \* the 1 MHz counter
    pinMode,        \* "input" or "output"
    pinOut,         \* the level driven while the pin is an output
    sensor,         \* the frames the sensor may answer with on this host
    frame,          \* per process: the pulse widths the line will show
    captures,       \* per process: calls of pi_dht_read
    lockFails,      \* per process: calls of open_lockfile that returned -1
    releases,       \* per process: calls of close_lockfile
    sleeps,         \* per process: calls of sleep(1)
    gpioTouched,    \* per process: whether it made any pi_mmio_set_* or read
    waitNo,         \* per process: calls of getTransitionMicros in this attempt
    passes          \* per process: passes of the while (needAdjust) loop

vars == <<pc, type, pHumidity, pTemperature, humidity, temperature, success, count, lockfd, mmio,
          priority, i, lowStartedUs, highStartedUs, lowMicros, highMicros,
          threshold, data, log, lockOwner, lockfileOk, fdsOpen, now, pinMode,
          pinOut, sensor, frame, captures, lockFails, releases, sleeps, gpioTouched,
          waitNo, passes>>

argVars == <<type, pHumidity, pTemperature, lockfileOk, sensor>>

lockVars == <<lockfd, lockOwner, fdsOpen, lockFails, releases>>

pinVars == <<pinMode, pinOut, gpioTouched>>

captureVars == <<i, lowStartedUs, highStartedUs, lowMicros, highMicros, now,
                 frame, waitNo>>

decodeVars == <<threshold, data, passes>>

outVars == <<humidity, temperature>>

(***************************************************************************)
(* Bounds of the model                                                     *)
(***************************************************************************)
\* what the caller's two floats hold on entry, in tenths
EntryValue == 123

\* microseconds from the end of the start signal to the sensor's answer
AckUs == 30

\* the while (needAdjust) passes that are counted; further ones are not
MaxPasses == 5

\* 0 stands for every selector that is neither DHT11 nor DHT22
CallTypes == {DHT11, DHT22, 0}

\* the two pointer arguments of a call
CallSlots == {<<"valid", "valid">>, <<NULL, "valid">>, <<"valid", NULL>>}

\* the timer readings at which a capture may start
WakeTimes == {U32(1000)}

\* the frames the line shows in a capture of dht_read
CaptureFrames ==
    { SensorFrame(<<2, 140, 128, 50, 64>>),
      SensorFrame(<<60, 0, 25, 0, 85>>),
      SensorFrame(<<2, 140, 128, 50, 65>>),
      LateHigh(SensorFrame(<<1, 244, 0, 215, 204>>), 8, 40) }

NoFrame == FlatFrame(0)

NoLow == [k \in LowIdx |-> Zero32]

NoHigh == [k \in HighIdx |-> Zero32]

NoLog == [kind |-> "none", idx |-> -1]

(***************************************************************************)
(* dht_read                                                                *)
(***************************************************************************)
\* the state before the processes in callers call dht_read
InitWith(callers, frames) ==
    /\ pc = [p \in Procs |-> IF p \in callers THEN "dht_read" ELSE "done"]
    /\ \E types \in [callers -> CallTypes], slots \in [callers -> CallSlots] :
          /\ type = [p \in Procs |-> IF p \in callers THEN types[p] ELSE DHT22]
          /\ pHumidity = [p \in Procs |-> IF p \in callers THEN slots[p][1] ELSE "valid"]
          /\ pTemperature = [p \in Procs |-> IF p \in callers THEN slots[p][2] ELSE "valid"]
    /\ humidity = [p \in Procs |-> EntryValue]
    /\ temperature = [p \in Procs |-> EntryValue]
    /\ success = [p \in Procs |-> 0]
    /\ count = [p \in Procs |-> RETRY_COUNT]
    /\ lockfd = [p \in Procs |-> -1]
    /\ mmio = [p \in Procs |-> "unused"]
    /\ priority = [p \in Procs |-> "default"]
    /\ i = [p \in Procs |-> 0]
    /\ lowStartedUs = [p \in Procs |-> Zero32]
    /\ highStartedUs = [p \in Procs |-> Zero32]
    /\ lowMicros = [p \in Procs |-> NoLow]
    /\ highMicros = [p \in Procs |-> NoHigh]
    /\ threshold = [p \in Procs |-> Zero32]
    /\ data = [p \in Procs |-> NoData]
    /\ log = [p \in Procs |-> NoLog]
    /\ lockOwner = NoProc
    /\ lockfileOk \in BOOLEAN
    /\ fdsOpen = [p \in Procs |-> 0]
    /\ now \in WakeTimes
    /\ pinMode = "input"
    /\ pinOut = "low"
    /\ sensor = frames
    /\ frame = [p \in Procs |-> NoFrame]
    /\ captures = [p \in Procs |-> 0]
    /\ lockFails = [p \in Procs |-> 0]
    /\ releases = [p \in Procs |-> 0]
    /\ sleeps = [p \in Procs |-> 0]
    /\ gpioTouched = [p \in Procs |-> FALSE]
    /\ waitNo = [p \in Procs |-> 0]
    /\ passes = [p \in Procs |-> 0]

\* BadArgument without the else: the log line, then the rest of dht_read
BadArgument_FallsThrough(p) ==
    /\ pc[p] = "dht_read"
    /\ pHumidity[p] = NULL \/ pTemperature[p] = NULL
    /\ log' = [log EXCEPT ![p] = [kind |-> "bad argument", idx |-> -1]]
    /\ mmio' = [mmio EXCEPT ![p] = "ok"]
    /\ pc' = [pc EXCEPT ![p] = "while"]
    /\ UNCHANGED <<argVars, lockVars, pinVars, captureVars, decodeVars, outVars,
                   success, count, priority, captures, sleeps>>

\* if (pHumidity == NULL || pTemperature == NULL) DHT_READ_LOG("bad argument\n")
BadArgument(p) ==
    /\ pc[p] = "dht_read"
    /\ pHumidity[p] = NULL \/ pTemperature[p] = NULL
    /\ log' = [log EXCEPT ![p] = [kind |-> "bad argument", idx |-> -1]]
    /\ pc' = [pc EXCEPT ![p] = "return"]
    /\ UNCHANGED <<argVars, lockVars, pinVars, captureVars, decodeVars, outVars,
                   success, count, mmio, priority, captures, sleeps>>

\* else if (pi_mmio_init() < 0) DHT_READ_LOG("MMIO init failed...")
MmioInitFails(p) ==
    /\ pc[p] = "dht_read"
    /\ pHumidity[p] # NULL /\ pTemperature[p] # NULL
    /\ mmio' = [mmio EXCEPT ![p] = "failed"]
    /\ log' = [log EXCEPT ![p] = [kind |-> "MMIO init failed", idx |-> -1]]
    /\ pc' = [pc EXCEPT ![p] = "return"]
    /\ UNCHANGED <<argVars, lockVars, pinVars, captureVars, decodeVars, outVars,
                   success, count, priority, captures, sleeps>>

\* else { int lockfd = -1; int count = 10;
MmioInitOk(p) ==
    /\ pc[p] = "dht_read"
    /\ pHumidity[p] # NULL /\ pTemperature[p] # NULL
    /\ mmio' = [mmio EXCEPT ![p] = "ok"]
    /\ lockfd' = [lockfd EXCEPT ![p] = -1]
    /\ count' = [count EXCEPT ![p] = RETRY_COUNT]
    /\ pc' = [pc EXCEPT ![p] = "while"]
    /\ UNCHANGED <<argVars, lockOwner, fdsOpen, lockFails, releases, pinVars,
                   captureVars, decodeVars, outVars, success, priority, log,
                   captures, sleeps>>

\* while (count-- > 0)
WhileCount(p) ==
    /\ pc[p] = "while"
    /\ count' = [count EXCEPT ![p] = @ - 1]
    /\ pc' = [pc EXCEPT ![p] = IF count[p] > 0 THEN "lock" ELSE "unlock"]
    /\ UNCHANGED <<argVars, lockVars, pinVars, captureVars, decodeVars, outVars,
                   success, mmio, priority, log, captures, sleeps>>

\* the descriptor open_lockfile returns when it has the lock
LockFd == 3

\* open_lockfile that takes a failed flock() for a success
open_lockfile_IgnoresFlock(p) ==
    IF ~lockfileOk
    THEN [fd |-> -1, owner |-> lockOwner, opened |-> 0]
    ELSE [fd |-> LockFd, owner |-> IF lockOwner = NoProc THEN p ELSE lockOwner,
          opened |-> 1]

\* open_lockfile: what it returns, who holds the lock and how many
\* descriptors are open afterwards
open_lockfile(p) ==
    IF ~lockfileOk
    THEN [fd |-> -1, owner |-> lockOwner, opened |-> 0]       \* open() < 0
    ELSE IF lockOwner # NoProc
    THEN [fd |-> -1, owner |-> lockOwner, opened |-> 1]       \* flock() == -1
    ELSE [fd |-> LockFd, owner |-> p, opened |-> 1]

\* if (lockfd < 0) lockfd = open_lockfile(LOCKFILE);
OpenLockfile(p) ==
    /\ pc[p] = "lock"
    /\ IF lockfd[p] < 0
       THEN LET r == open_lockfile(p)
            IN  /\ lockfd' = [lockfd EXCEPT ![p] = r.fd]
                /\ lockOwner' = r.owner
                /\ fdsOpen' = [fdsOpen EXCEPT ![p] = @ + r.opened]
                /\ lockFails' = [lockFails EXCEPT ![p] = @ + (IF r.fd < 0 THEN 1 ELSE 0)]
       ELSE UNCHANGED <<lockfd, lockOwner, fdsOpen, lockFails>>
    /\ pc' = [pc EXCEPT ![p] = "if_locked"]
    /\ UNCHANGED <<argVars, releases, pinVars, captureVars, decodeVars, outVars,
                   success, count, mmio, priority, log, captures, sleeps>>

\* NotLocked that gives up the whole read when the lock is refused
NotLocked_Aborts(p) ==
    /\ pc[p] = "if_locked"
    /\ lockfd[p] < 0
    /\ pc' = [pc EXCEPT ![p] = "unlock"]
    /\ UNCHANGED <<argVars, lockVars, pinVars, captureVars, decodeVars, outVars,
                   success, count, mmio, priority, log, captures, sleeps>>

\* if (lockfd >= 0) is false: no attempt
NotLocked(p) ==
    /\ pc[p] = "if_locked"
    /\ lockfd[p] < 0
    /\ pc' = [pc EXCEPT ![p] = "if_count"]
    /\ UNCHANGED <<argVars, lockVars, pinVars, captureVars, decodeVars, outVars,
                   success, count, mmio, priority, log, captures, sleeps>>

\* what the lock holder may do: the guard of the call of pi_dht_read
MayCapture(p) == lockfd[p] >= 0

\* if (lockfd >= 0) success = pi_dht_read(...): the call, and the callee's
\* *pTemperature = 0.0f; *pHumidity = 0.0f; and zeroed arrays
CallPiDhtRead(p) ==
    /\ pc[p] = "if_locked"
    /\ MayCapture(p)
    /\ captures' = [captures EXCEPT ![p] = @ + 1]
    /\ temperature' = [temperature EXCEPT ![p] = 0]
    /\ humidity' = [humidity EXCEPT ![p] = 0]
    /\ lowMicros' = [lowMicros EXCEPT ![p] = NoLow]
    /\ highMicros' = [highMicros EXCEPT ![p] = NoHigh]
    /\ pc' = [pc EXCEPT ![p] = "set_output"]
    /\ UNCHANGED <<argVars, lockVars, pinVars, i, lowStartedUs, highStartedUs,
                   now, frame, waitNo, decodeVars, success, count, mmio,
                   priority, log, sleeps>>

\* IfSuccess without count = 0: a success does not end the loop
IfSuccess_KeepsRetrying(p) ==
    /\ pc[p] = "if_success"
    /\ pc' = [pc EXCEPT ![p] = "if_count"]
    /\ i' = [i EXCEPT ![p] = 0]
    /\ lowStartedUs' = [lowStartedUs EXCEPT ![p] = Zero32]
    /\ highStartedUs' = [highStartedUs EXCEPT ![p] = Zero32]
    /\ lowMicros' = [lowMicros EXCEPT ![p] = NoLow]
    /\ highMicros' = [highMicros EXCEPT ![p] = NoHigh]
    /\ threshold' = [threshold EXCEPT ![p] = Zero32]
    /\ data' = [data EXCEPT ![p] = NoData]
    /\ passes' = [passes EXCEPT ![p] = 0]
    /\ waitNo' = [waitNo EXCEPT ![p] = 0]
    /\ frame' = [frame EXCEPT ![p] = NoFrame]
    /\ log' = [log EXCEPT ![p] = NoLog]
    /\ now' \in WakeTimes
    /\ UNCHANGED <<argVars, lockVars, pinVars, outVars, success, count, mmio,
                   priority, captures, sleeps>>

\* if (success) count = 0; pi_dht_read has returned: its locals are gone,
\* and the timer, not read again before the next capture, has moved on
IfSuccess(p) ==
    /\ pc[p] = "if_success"
    /\ count' = [count EXCEPT ![p] = IF success[p] # 0 THEN 0 ELSE @]
    /\ pc' = [pc EXCEPT ![p] = "if_count"]
    /\ i' = [i EXCEPT ![p] = 0]
    /\ lowStartedUs' = [lowStartedUs EXCEPT ![p] = Zero32]
    /\ highStartedUs' = [highStartedUs EXCEPT ![p] = Zero32]
    /\ lowMicros' = [lowMicros EXCEPT ![p] = NoLow]
    /\ highMicros' = [highMicros EXCEPT ![p] = NoHigh]
    /\ threshold' = [threshold EXCEPT ![p] = Zero32]
    /\ data' = [data EXCEPT ![p] = NoData]
    /\ passes' = [passes EXCEPT ![p] = 0]
    /\ waitNo' = [waitNo EXCEPT ![p] = 0]
    /\ frame' = [frame EXCEPT ![p] = NoFrame]
    /\ log' = [log EXCEPT ![p] = NoLog]
    /\ now' \in WakeTimes
    /\ UNCHANGED <<argVars, lockVars, pinVars, outVars, success, mmio, priority,
                   captures, sleeps>>

\* IfCount that gives the lock back before the backoff sleep
IfCount_ReleasesBeforeSleep(p) ==
    /\ pc[p] = "if_count"
    /\ pc' = [pc EXCEPT ![p] = IF count[p] > 0 THEN "sleep" ELSE "while"]
    /\ sleeps' = [sleeps EXCEPT ![p] = @ + (IF count[p] > 0 THEN 1 ELSE 0)]
    /\ IF count[p] > 0 /\ lockfd[p] >= 0
       THEN /\ lockOwner' = IF lockOwner = p THEN NoProc ELSE lockOwner
            /\ fdsOpen' = [fdsOpen EXCEPT ![p] = @ - 1]
            /\ releases' = [releases EXCEPT ![p] = @ + 1]
            /\ lockfd' = [lockfd EXCEPT ![p] = -1]
            /\ UNCHANGED lockFails
       ELSE UNCHANGED lockVars
    /\ UNCHANGED <<argVars, pinVars, captureVars, decodeVars, outVars,
                   success, count, mmio, priority, log, captures>>

\* if (count > 0) sleep(1): the process starts to sleep, or goes on
IfCount(p) ==
    /\ pc[p] = "if_count"
    /\ pc' = [pc EXCEPT ![p] = IF count[p] > 0 THEN "sleep" ELSE "while"]
    /\ sleeps' = [sleeps EXCEPT ![p] = @ + (IF count[p] > 0 THEN 1 ELSE 0)]
    /\ UNCHANGED <<argVars, lockVars, pinVars, captureVars, decodeVars, outVars,
                   success, count, mmio, priority, log, captures>>

\* sleep(1) returns
SleepDone(p) ==
    /\ pc[p] = "sleep"
    /\ pc' = [pc EXCEPT ![p] = "while"]
    /\ UNCHANGED <<argVars, lockVars, pinVars, captureVars, decodeVars, outVars,
                   success, count, mmio, priority, log, captures, sleeps>>

\* if (lockfd >= 0) close_lockfile(lockfd): flock(fd, LOCK_UN); close(fd)
CloseLockfile(p) ==
    /\ pc[p] = "unlock"
    /\ IF lockfd[p] >= 0
       THEN /\ lockOwner' = IF lockOwner = p THEN NoProc ELSE lockOwner
            /\ fdsOpen' = [fdsOpen EXCEPT ![p] = @ - 1]
            /\ releases' = [releases EXCEPT ![p] = @ + 1]
       ELSE UNCHANGED <<lockOwner, fdsOpen, releases>>
    /\ pc' = [pc EXCEPT ![p] = "return"]
    /\ UNCHANGED <<argVars, lockfd, lockFails, pinVars, captureVars, decodeVars,
                   outVars, success, count, mmio, priority, log, captures, sleeps>>

\* return success; the call is over: its locals, and what was counted
\* about it, are dropped; the caller keeps success and its two floats
Return(p) ==
    /\ pc[p] = "return"
    /\ pc' = [pc EXCEPT ![p] = "done"]
    /\ count' = [count EXCEPT ![p] = RETRY_COUNT]
    /\ lockfd' = [lockfd EXCEPT ![p] = -1]
    /\ mmio' = [mmio EXCEPT ![p] = "unused"]
    /\ log' = [log EXCEPT ![p] = NoLog]
    /\ captures' = [captures EXCEPT ![p] = 0]
    /\ lockFails' = [lockFails EXCEPT ![p] = 0]
    /\ releases' = [releases EXCEPT ![p] = 0]
    /\ sleeps' = [sleeps EXCEPT ![p] = 0]
    /\ gpioTouched' = [gpioTouched EXCEPT ![p] = FALSE]
    /\ UNCHANGED <<argVars, lockOwner, fdsOpen, pinMode, pinOut, captureVars,
                   decodeVars, outVars, success, priority>>

\* another program takes the flock on the lock file
OtherLocks ==
    /\ lockOwner = NoProc
    /\ lockOwner' = Other
    /\ UNCHANGED <<pc, argVars, lockfd, fdsOpen, lockFails, releases, pinVars,
                   captureVars, decodeVars, outVars, success, count, mmio,
                   priority, log, captures, sleeps>>

\* and gives it up
OtherUnlocks ==
    /\ lockOwner = Other
    /\ lockOwner' = NoProc
    /\ UNCHANGED <<pc, argVars, lockfd, fdsOpen, lockFails, releases, pinVars,
                   captureVars, decodeVars, outVars, success, count, mmio,
                   priority, log, captures, sleeps>>

(***************************************************************************)
(* pi_dht_read: the start sequence                                         *)
(***************************************************************************)
\* pi_mmio_set_output(pin);
SetOutput(p) ==
    /\ pc[p] = "set_output"
    /\ pinMode' = "output"
    /\ gpioTouched' = [gpioTouched EXCEPT ![p] = TRUE]
    /\ pc' = [pc EXCEPT ![p] = "set_max_priority"]
    /\ UNCHANGED <<argVars, lockVars, pinOut, captureVars, decodeVars, outVars,
                   success, count, mmio, priority, log, captures, sleeps>>

\* set_max_priority();
SetMaxPriority(p) ==
    /\ pc[p] = "set_max_priority"
    /\ priority' = [priority EXCEPT ![p] = "max"]
    /\ pc' = [pc EXCEPT ![p] = "set_high"]
    /\ UNCHANGED <<argVars, lockVars, pinVars, captureVars, decodeVars, outVars,
                   success, count, mmio, log, captures, sleeps>>

\* SetHigh without sleep_milliseconds(500)
SetHigh_NoSleep(p) ==
    /\ pc[p] = "set_high"
    /\ pinOut' = "high"
    /\ pc' = [pc EXCEPT ![p] = "set_low"]
    /\ UNCHANGED <<argVars, lockVars, pinMode, gpioTouched, captureVars,
                   decodeVars, outVars, success, count, mmio, priority, log,
                   captures, sleeps>>

\* pi_mmio_set_high(pin); and the process enters sleep_milliseconds(500)
SetHigh(p) ==
    /\ pc[p] = "set_high"
    /\ pinOut' = "high"
    /\ pc' = [pc EXCEPT ![p] = "sleep_500ms"]
    /\ UNCHANGED <<argVars, lockVars, pinMode, gpioTouched, captureVars,
                   decodeVars, outVars, success, count, mmio, priority, log,
                   captures, sleeps>>

\* sleep_milliseconds(500) returns; the timer has moved on
Sleep500Done(p) ==
    /\ pc[p] = "sleep_500ms"
    /\ now' \in WakeTimes
    /\ pc' = [pc EXCEPT ![p] = "set_low"]
    /\ UNCHANGED <<argVars, lockVars, pinVars, i, lowStartedUs, highStartedUs,
                   lowMicros, highMicros, frame, waitNo, decodeVars, outVars,
                   success, count, mmio, priority, log, captures, sleeps>>

\* pi_mmio_set_low(pin); and the process enters busy_wait_milliseconds(20)
SetLow(p) ==
    /\ pc[p] = "set_low"
    /\ pinOut' = "low"
    /\ pc' = [pc EXCEPT ![p] = "busy_wait_20ms"]
    /\ UNCHANGED <<argVars, lockVars, pinMode, gpioTouched, captureVars,
                   decodeVars, outVars, success, count, mmio, priority, log,
                   captures, sleeps>>

\* busy_wait_milliseconds(20) returns
BusyWaitDone(p) ==
    /\ pc[p] = "busy_wait_20ms"
    /\ pc' = [pc EXCEPT ![p] = "set_input"]
    /\ UNCHANGED <<argVars, lockVars, pinVars, captureVars, decodeVars, outVars,
                   success, count, mmio, priority, log, captures, sleeps>>

\* pi_mmio_set_input(pin); pi_timer_sleep_micros(2); the sensor answers the
\* start signal with one of the frames
SetInput(p) ==
    /\ pc[p] = "set_input"
    /\ pinMode' = "input"
    /\ frame' \in {[frame EXCEPT ![p] = f] : f \in sensor}
    /\ pc' = [pc EXCEPT ![p] = "wait_ack"]
    /\ UNCHANGED <<argVars, lockVars, pinOut, gpioTouched, i, lowStartedUs,
                   highStartedUs, lowMicros, highMicros, now, waitNo,
                   decodeVars, outVars, success, count, mmio, priority, log,
                   captures, sleeps>>

(***************************************************************************)
(* pi_dht_read: the capture                                                *)
(***************************************************************************)
\* One call of getTransitionMicros that starts at the timer reading now.
\* Either the level is seen after us microseconds, or the loop finds
\* MAX_WAIT_US elapsed first.
WaitResult(timeout, us) ==
    IF timeout
    THEN [ts  |-> getTransitionMicros(now, Add32(now, U32(MAX_WAIT_US)),
                                      Add32(now, U32(MAX_WAIT_US))),
          now |-> Add32(now, U32(MAX_WAIT_US))]
    ELSE [ts  |-> getTransitionMicros(now, now, Add32(now, us)),
          now |-> Add32(now, us)]

\* TimeoutReturn without set_default_priority()
TimeoutReturn_KeepsPriority(p, kind, idx) ==
    /\ UNCHANGED priority
    /\ log' = [log EXCEPT ![p] = [kind |-> kind, idx |-> idx]]
    /\ success' = [success EXCEPT ![p] = 0]
    /\ pc' = [pc EXCEPT ![p] = "if_success"]

\* if (...Us == 0) { set_default_priority(); DHT_READ_LOG(...); return 0; }
\* success = 0 is dht_read's assignment of the returned value
TimeoutReturn(p, kind, idx) ==
    /\ priority' = [priority EXCEPT ![p] = "default"]
    /\ log' = [log EXCEPT ![p] = [kind |-> kind, idx |-> idx]]
    /\ success' = [success EXCEPT ![p] = 0]
    /\ pc' = [pc EXCEPT ![p] = "if_success"]

\* uint32_t lowStartedUs = getTransitionMicros(pin, false);
WaitAck(p) ==
    /\ pc[p] = "wait_ack"
    /\ \E timeout \in BOOLEAN :
         LET r == WaitResult(timeout, U32(AckUs))
         IN  /\ now' = r.now
             /\ waitNo' = [waitNo EXCEPT ![p] = @ + 1]
             /\ lowStartedUs' = [lowStartedUs EXCEPT ![p] = r.ts]
             /\ IF r.ts = Zero32
                THEN /\ TimeoutReturn(p, "Timeout waiting for response low", -1)
                     /\ UNCHANGED i
                ELSE /\ i' = [i EXCEPT ![p] = 0]
                     /\ pc' = [pc EXCEPT ![p] = "wait_high"]
                     /\ UNCHANGED <<priority, log, success>>
    /\ UNCHANGED <<argVars, lockVars, pinVars, highStartedUs, lowMicros,
                   highMicros, frame, decodeVars, outVars, count, mmio,
                   captures, sleeps>>

\* highStartedUs = getTransitionMicros(pin, true);
\* lowMicros[i] = highStartedUs - lowStartedUs;
WaitHigh(p) ==
    /\ pc[p] = "wait_high"
    /\ \E timeout \in BOOLEAN :
         LET r == WaitResult(timeout, frame[p].low[i[p]])
         IN  /\ now' = r.now
             /\ waitNo' = [waitNo EXCEPT ![p] = @ + 1]
             /\ highStartedUs' = [highStartedUs EXCEPT ![p] = r.ts]
             /\ IF r.ts = Zero32
                THEN /\ TimeoutReturn(p, "Timeout waiting for high", i[p])
                     /\ UNCHANGED lowMicros
                ELSE /\ lowMicros' = [lowMicros EXCEPT
                                         ![p][i[p]] = Sub32(r.ts, lowStartedUs[p])]
                     /\ pc' = [pc EXCEPT ![p] = "wait_low"]
                     /\ UNCHANGED <<priority, log, success>>
    /\ UNCHANGED <<argVars, lockVars, pinVars, i, lowStartedUs, highMicros,
                   frame, decodeVars, outVars, count, mmio, captures, sleeps>>

\* WaitLow without the test of the returned value: a timeout goes unnoticed
WaitLow_IgnoresTimeout(p) ==
    /\ pc[p] = "wait_low"
    /\ \E timeout \in BOOLEAN :
         LET r == WaitResult(timeout, frame[p].high[i[p]])
         IN  /\ now' = r.now
             /\ waitNo' = [waitNo EXCEPT ![p] = @ + 1]
             /\ lowStartedUs' = [lowStartedUs EXCEPT ![p] = r.ts]
             /\ highMicros' = [highMicros EXCEPT
                                  ![p][i[p]] = Sub32(r.ts, highStartedUs[p])]
             /\ i' = [i EXCEPT ![p] = @ + 1]
             /\ pc' = [pc EXCEPT ![p] = IF i[p] + 1 < DHT_PULSES
                                        THEN "wait_high"
                                        ELSE "wait_release"]
             /\ UNCHANGED <<priority, log, success>>
    /\ UNCHANGED <<argVars, lockVars, pinVars, highStartedUs, lowMicros, frame,
                   decodeVars, outVars, count, mmio, captures, sleeps>>

\* lowStartedUs = getTransitionMicros(pin, false);
\* highMicros[i] = lowStartedUs - highStartedUs; and the loop's i++
WaitLow(p) ==
    /\ pc[p] = "wait_low"
    /\ \E timeout \in BOOLEAN :
         LET r == WaitResult(timeout, frame[p].high[i[p]])
         IN  /\ now' = r.now
             /\ waitNo' = [waitNo EXCEPT ![p] = @ + 1]
             /\ lowStartedUs' = [lowStartedUs EXCEPT ![p] = r.ts]
             /\ IF r.ts = Zero32
                THEN /\ TimeoutReturn(p, "Timeout waiting for low", i[p])
                     /\ UNCHANGED <<highMicros, i>>
                ELSE /\ highMicros' = [highMicros EXCEPT
                                          ![p][i[p]] = Sub32(r.ts, highStartedUs[p])]
                     /\ i' = [i EXCEPT ![p] = @ + 1]
                     /\ pc' = [pc EXCEPT ![p] = IF i[p] + 1 < DHT_PULSES
                                                THEN "wait_high"
                                                ELSE "wait_release"]
                     /\ UNCHANGED <<priority, log, success>>
    /\ UNCHANGED <<argVars, lockVars, pinVars, highStartedUs, lowMicros, frame,
                   decodeVars, outVars, count, mmio, captures, sleeps>>

\* highStartedUs = getTransitionMicros(pin, true);
\* lowMicros[DHT_PULSES] = highStartedUs - lowStartedUs;
WaitRelease(p) ==
    /\ pc[p] = "wait_release"
    /\ \E timeout \in BOOLEAN :
         LET r == WaitResult(timeout, frame[p].low[DHT_PULSES])
         IN  /\ now' = r.now
             /\ waitNo' = [waitNo EXCEPT ![p] = @ + 1]
             /\ highStartedUs' = [highStartedUs EXCEPT ![p] = r.ts]
             /\ IF r.ts = Zero32
                THEN /\ TimeoutReturn(p, "Timeout waiting for high[release]", -1)
                     /\ UNCHANGED lowMicros
                ELSE /\ lowMicros' = [lowMicros EXCEPT
                                         ![p][DHT_PULSES] = Sub32(r.ts, lowStartedUs[p])]
                     /\ pc' = [pc EXCEPT ![p] = "set_default_priority"]
                     /\ UNCHANGED <<priority, log, success>>
    /\ UNCHANGED <<argVars, lockVars, pinVars, i, lowStartedUs, highMicros,
                   frame, decodeVars, outVars, count, mmio, captures, sleeps>>

\* the end of the capture without set_default_priority()
SetDefaultPriority_Missing(p) ==
    /\ pc[p] = "set_default_priority"
    /\ pc' = [pc EXCEPT ![p] = "compensate"]
    /\ UNCHANGED <<argVars, lockVars, pinVars, captureVars, decodeVars, outVars,
                   success, count, mmio, priority, log, captures, sleeps>>

\* set_default_priority(); (after the capture)
SetDefaultPriority(p) ==
    /\ pc[p] = "set_default_priority"
    /\ priority' = [priority EXCEPT ![p] = "default"]
    /\ pc' = [pc EXCEPT ![p] = "compensate"]
    /\ UNCHANGED <<argVars, lockVars, pinVars, captureVars, decodeVars, outVars,
                   success, count, mmio, log, captures, sleeps>>

(***************************************************************************)
(* pi_dht_read: decoding                                                   *)
(***************************************************************************)
\* one pass of while (needAdjust) { ... }
Compensate(p) ==
    /\ pc[p] = "compensate"
    /\ LET r == AdjustPass(lowMicros[p], highMicros[p])
       IN  /\ threshold' = [threshold EXCEPT ![p] = Threshold(lowMicros[p])]
           /\ lowMicros' = [lowMicros EXCEPT ![p] = r.low]
           /\ highMicros' = [highMicros EXCEPT ![p] = r.high]
           /\ pc' = [pc EXCEPT ![p] = IF r.need THEN "compensate" ELSE "extract"]
    /\ passes' = [passes EXCEPT ![p] = IF @ < MaxPasses THEN @ + 1 ELSE @]
    /\ UNCHANGED <<argVars, lockVars, pinVars, i, lowStartedUs, highStartedUs,
                   now, frame, waitNo, data, outVars, success, count, mmio,
                   priority, log, captures, sleeps>>

\* uint8_t data[DHT_BYTES] = {0}; for (i=1; i < DHT_PULSES; i++) { ... }
Extract(p) ==
    /\ pc[p] = "extract"
    /\ data' = [data EXCEPT ![p] = ExtractBits(highMicros[p], threshold[p])]
    /\ pc' = [pc EXCEPT ![p] = "checksum"]
    /\ UNCHANGED <<argVars, lockVars, pinVars, captureVars, threshold, passes,
                   outVars, success, count, mmio, priority, log, captures, sleeps>>

\* Checksum that returns 0 for a type that is neither DHT11 nor DHT22
Checksum_RejectsUnknownType(p) ==
    /\ pc[p] = "checksum"
    /\ IF ~ChecksumOk(data[p])
       THEN /\ log' = [log EXCEPT ![p] = [kind |-> "Checksum error", idx |-> -1]]
            /\ success' = [success EXCEPT ![p] = 0]
            /\ UNCHANGED outVars
       ELSE IF type[p] \in {DHT11, DHT22}
       THEN /\ humidity' = [humidity EXCEPT ![p] = Interpret(type[p], data[p])[1]]
            /\ temperature' = [temperature EXCEPT ![p] = Interpret(type[p], data[p])[2]]
            /\ success' = [success EXCEPT ![p] = 1]
            /\ UNCHANGED log
       ELSE /\ success' = [success EXCEPT ![p] = 0]
            /\ UNCHANGED <<outVars, log>>
    /\ pc' = [pc EXCEPT ![p] = "if_success"]
    /\ UNCHANGED <<argVars, lockVars, pinVars, captureVars, decodeVars, count,
                   mmio, priority, captures, sleeps>>

\* the checksum test, the interpretation by type and the return;
\* success = ... is dht_read's assignment of the returned value
Checksum(p) ==
    /\ pc[p] = "checksum"
    /\ IF ~ChecksumOk(data[p])
       THEN /\ log' = [log EXCEPT ![p] = [kind |-> "Checksum error", idx |-> -1]]
            /\ success' = [success EXCEPT ![p] = 0]
            /\ UNCHANGED outVars
       ELSE /\ humidity' = [humidity EXCEPT
                              ![p] = IF type[p] \in {DHT11, DHT22}
                                     THEN Interpret(type[p], data[p])[1] ELSE @]
            /\ temperature' = [temperature EXCEPT
                                 ![p] = IF type[p] \in {DHT11, DHT22}
                                        THEN Interpret(type[p], data[p])[2] ELSE @]
            /\ success' = [success EXCEPT ![p] = 1]
            /\ UNCHANGED log
    /\ pc' = [pc EXCEPT ![p] = "if_success"]
    /\ UNCHANGED <<argVars, lockVars, pinVars, captureVars, decodeVars, count,
                   mmio, priority, captures, sleeps>>

(***************************************************************************)
(* Specifications                                                          *)
(***************************************************************************)
Step(p) ==
    \/ BadArgument(p) \/ MmioInitFails(p) \/ MmioInitOk(p)
    \/ WhileCount(p) \/ OpenLockfile(p) \/ NotLocked(p) \/ CallPiDhtRead(p)
    \/ IfSuccess(p) \/ IfCount(p) \/ SleepDone(p) \/ CloseLockfile(p)
    \/ Return(p)
    \/ SetOutput(p) \/ SetMaxPriority(p) \/ SetHigh(p) \/ Sleep500Done(p)
    \/ SetLow(p) \/ BusyWaitDone(p) \/ SetInput(p)
    \/ WaitAck(p) \/ WaitHigh(p) \/ WaitLow(p) \/ WaitRelease(p)
    \/ SetDefaultPriority(p)
    \/ Compensate(p) \/ Extract(p) \/ Checksum(p)

\* one process calls dht_read while other programs use the lock file
Init == InitWith({"p1"}, CaptureFrames)

Next == Step("p1") \/ OtherLocks \/ OtherUnlocks

Spec == Init /\ [][Next]_vars

\* pi_dht_read from the end of its capture on, for any captured frame
DecodeTypes == {DHT11, DHT22, 0}

DecodeInit ==
    /\ pc = [p \in Procs |-> IF p = "p1" THEN "compensate" ELSE "done"]
    /\ type \in [Procs -> DecodeTypes]
    /\ type["p2"] = DHT22
    /\ pHumidity = [p \in Procs |-> "valid"]
    /\ pTemperature = [p \in Procs |-> "valid"]
    /\ humidity = [p \in Procs |-> IF p = "p1" THEN 0 ELSE EntryValue]
    /\ temperature = [p \in Procs |-> IF p = "p1" THEN 0 ELSE EntryValue]
    /\ success = [p \in Procs |-> 0]
    /\ count = [p \in Procs |-> IF p = "p1" THEN RETRY_COUNT - 1 ELSE RETRY_COUNT]
    /\ lockfd = [p \in Procs |-> IF p = "p1" THEN LockFd ELSE -1]
    /\ mmio = [p \in Procs |-> IF p = "p1" THEN "ok" ELSE "unused"]
    /\ priority = [p \in Procs |-> "default"]
    /\ i = [p \in Procs |-> IF p = "p1" THEN DHT_PULSES ELSE 0]
    /\ \E f \in DecodeFrames :
          /\ lowMicros = [p \in Procs |-> IF p = "p1" THEN f.low ELSE NoLow]
          /\ highMicros = [p \in Procs |-> IF p = "p1" THEN f.high ELSE NoHigh]
          /\ frame = [p \in Procs |-> IF p = "p1" THEN f ELSE NoFrame]
          /\ sensor = {f}
    /\ lowStartedUs \in [Procs -> {Zero32}]
    /\ highStartedUs \in [Procs -> {Zero32}]
    /\ threshold = [p \in Procs |-> Zero32]
    /\ data = [p \in Procs |-> NoData]
    /\ log = [p \in Procs |-> NoLog]
    /\ lockOwner = "p1"
    /\ lockfileOk = TRUE
    /\ fdsOpen = [p \in Procs |-> IF p = "p1" THEN 1 ELSE 0]
    /\ now \in WakeTimes
    /\ pinMode = "input"
    /\ pinOut = "low"
    /\ captures = [p \in Procs |-> IF p = "p1" THEN 1 ELSE 0]
    /\ lockFails = [p \in Procs |-> 0]
    /\ releases = [p \in Procs |-> 0]
    /\ sleeps = [p \in Procs |-> 0]
    /\ gpioTouched = [p \in Procs |-> p = "p1"]
    /\ waitNo = [p \in Procs |-> IF p = "p1" THEN 2 * DHT_PULSES + 2 ELSE 0]
    /\ passes = [p \in Procs |-> 0]

DecodeNext == Compensate("p1") \/ Extract("p1") \/ Checksum("p1")

DecodeSpec == DecodeInit /\ [][DecodeNext]_vars

\* the capture and the decoding of one attempt that starts shortly before
\* the 1 MHz counter wraps: the wait for the acknowledgement starts
\* WrapLeads microseconds before the counter passes from 2^32 - 1 to 0
WrapLeads == {10, AckUs, AckUs + MARKER_US, AckUs + 2 * MARKER_US, 200,
              AckUs + 2 * MARKER_US + LOW_US, 2000}

WrapTimes == {Sub32(Zero32, U32(d)) : d \in WrapLeads} \cup WakeTimes

WrapFrames == {SensorFrame(<<2, 140, 128, 50, 64>>), SensorFrame(<<60, 0, 25, 0, 85>>)}

WrapInit ==
    /\ pc = [p \in Procs |-> IF p = "p1" THEN "wait_ack" ELSE "done"]
    /\ type = [p \in Procs |-> DHT22]
    /\ pHumidity = [p \in Procs |-> "valid"]
    /\ pTemperature = [p \in Procs |-> "valid"]
    /\ humidity = [p \in Procs |-> IF p = "p1" THEN 0 ELSE EntryValue]
    /\ temperature = [p \in Procs |-> IF p = "p1" THEN 0 ELSE EntryValue]
    /\ success = [p \in Procs |-> 0]
    /\ count = [p \in Procs |-> IF p = "p1" THEN RETRY_COUNT - 1 ELSE RETRY_COUNT]
    /\ lockfd = [p \in Procs |-> IF p = "p1" THEN LockFd ELSE -1]
    /\ mmio = [p \in Procs |-> IF p = "p1" THEN "ok" ELSE "unused"]
    /\ priority = [p \in Procs |-> IF p = "p1" THEN "max" ELSE "default"]
    /\ i = [p \in Procs |-> 0]
    /\ lowMicros = [p \in Procs |-> NoLow]
    /\ highMicros = [p \in Procs |-> NoHigh]
    /\ \E f \in WrapFrames :
          /\ frame = [p \in Procs |-> IF p = "p1" THEN f ELSE NoFrame]
          /\ sensor = {f}
    /\ lowStartedUs = [p \in Procs |-> Zero32]
    /\ highStartedUs = [p \in Procs |-> Zero32]
    /\ threshold = [p \in Procs |-> Zero32]
    /\ data = [p \in Procs |-> NoData]
    /\ log = [p \in Procs |-> NoLog]
    /\ lockOwner = "p1"
    /\ lockfileOk = TRUE
    /\ fdsOpen = [p \in Procs |-> IF p = "p1" THEN 1 ELSE 0]
    /\ now \in WrapTimes
    /\ pinMode = "input"
    /\ pinOut = "low"
    /\ captures = [p \in Procs |-> IF p = "p1" THEN 1 ELSE 0]
    /\ lockFails = [p \in Procs |-> 0]
    /\ releases = [p \in Procs |-> 0]
    /\ sleeps = [p \in Procs |-> 0]
    /\ gpioTouched = [p \in Procs |-> p = "p1"]
    /\ waitNo = [p \in Procs |-> 0]
    /\ passes = [p \in Procs |-> 0]

WrapNext ==
    \/ WaitAck("p1") \/ WaitHigh("p1") \/ WaitLow("p1") \/ WaitRelease("p1")
    \/ SetDefaultPriority("p1")
    \/ Compensate("p1") \/ Extract("p1") \/ Checksum("p1")

WrapSpec == WrapInit /\ [][WrapNext]_vars

\* two processes call dht_read on the same host
ConcFrames == {SensorFrame(<<2, 140, 128, 50, 64>>)}

ConcInit == InitWith(Procs, ConcFrames) /\ type = [p \in Procs |-> DHT22]

ConcNext == \E p \in Procs : Step(p)

ConcSpec == ConcInit /\ [][ConcNext]_vars

(***************************************************************************)
(* Properties                                                              *)
(***************************************************************************)
\* the statements of pi_dht_read
StartPcs == {"set_output", "set_max_priority", "set_high", "sleep_500ms",
             "set_low", "busy_wait_20ms", "set_input"}

WaitPcs == {"wait_ack", "wait_high", "wait_low", "wait_release"}

DecodePcs == {"compensate", "extract", "checksum"}

AttemptPcs == StartPcs \cup WaitPcs \cup {"set_default_priority"} \cup DecodePcs

\* the statements of dht_read
ReadPcs == {"dht_read", "while", "lock", "if_locked", "if_success", "if_count",
            "sleep", "unlock", "return", "done"}

\* C1: with pi_mmio_init succeeding and the lock taken at the first attempt,
\* a successful attempt is the last one (N failures then a success are N+1
\* calls of pi_dht_read), and dht_read returns failure only after exactly 10
\* calls, with close_lockfile called exactly once.
C1_RetryUntilSuccess ==
    \A p \in Procs :
        (mmio[p] = "ok" /\ lockFails[p] = 0) =>
            /\ captures[p] <= RETRY_COUNT
            /\ success[p] # 0 =>
                  pc[p] \in {"if_success", "if_count", "while", "unlock", "return"}
            /\ (pc[p] = "return" /\ success[p] # 0) =>
                  captures[p] \in 1 .. RETRY_COUNT /\ releases[p] = 1
            /\ (pc[p] = "return" /\ success[p] = 0) =>
                  captures[p] = RETRY_COUNT /\ releases[p] = 1

\* three failed attempts, then a success: four calls
C1_Witness ==
    /\ pc["p1"] = "return" /\ success["p1"] = 1
    /\ captures["p1"] = 4 /\ sleeps["p1"] = 3 /\ lockFails["p1"] = 0

\* C2: a process is inside pi_dht_read only while its descriptor holds the
\* flock, a descriptor in lockfd that is not yet closed is the lock's holder,
\* and two processes are never inside pi_dht_read at the same time.
C2_LockMutualExclusion ==
    /\ \A p \in Procs : pc[p] \in AttemptPcs => (lockfd[p] >= 0 /\ lockOwner = p)
    /\ \A p \in Procs : (lockfd[p] >= 0 /\ pc[p] # "return") => lockOwner = p
    /\ \A p, q \in Procs :
          (pc[p] \in AttemptPcs /\ pc[q] \in AttemptPcs) => p = q

\* p1 captures while p2 has been refused the lock
C2_Witness ==
    /\ pc["p1"] = "wait_low" /\ i["p1"] = 7
    /\ pc["p2"] = "sleep" /\ lockFails["p2"] = 2 /\ lockfd["p2"] < 0

\* C3: a call with both pointers valid that returns failure leaves 0 in both
\* floats.
C3_FailureZeroesOutputs ==
    \A p \in Procs :
        (pc[p] = "return" /\ pHumidity[p] # NULL /\ pTemperature[p] # NULL
            /\ success[p] = 0)
        => (humidity[p] = 0 /\ temperature[p] = 0)

\* C4: the while (needAdjust) loop terminates on every fully captured frame.
\* The loop is deterministic and its state is the two arrays (the threshold
\* is recomputed from lowMicros in every pass), so it terminates only if no
\* pass that asks for another pass leaves the arrays as it found them: from
\* such a frame every later pass is the same pass.
C4_CompensationTerminates ==
    [][\A p \in Procs :
          (pc[p] = "compensate" /\ pc'[p] = "compensate")
          => (lowMicros'[p] # lowMicros[p] \/ highMicros'[p] # highMicros[p])]_vars

\* C5: a decode succeeds exactly when byte 4 is the low 8 bits of the sum of
\* bytes 0..3, whatever the type; a mismatch fails the attempt, logs the
\* checksum error and leaves both outputs at zero.
C5_ChecksumDecides ==
    \A p \in Procs :
        (pc[p] = "if_success" /\ waitNo[p] = 2 * DHT_PULSES + 2) =>
            LET d   == data[p]
                sum == d[0] + d[1] + d[2] + d[3]
                ok  == d[4] = sum - 256 * (sum \div 256)
            IN  /\ (success[p] = 1) <=> ok
                /\ (success[p] = 0) <=> ~ok
                /\ ~ok => /\ humidity[p] = 0 /\ temperature[p] = 0
                          /\ log[p].kind = "Checksum error"

\* a payload whose bytes 0..3 sum to 300 but whose checksum byte is 45
C5_Witness ==
    /\ pc["p1"] = "if_success" /\ success["p1"] = 0
    /\ data["p1"][0] = 200 /\ data["p1"][1] = 100 /\ data["p1"][4] = 45
    /\ log["p1"].kind = "Checksum error"

\* the high bit of a byte, and the byte without it
Bit7(b) == IF b >= 128 THEN 1 ELSE 0

Low7(b) == IF b >= 128 THEN b - 128 ELSE b

\* C8: a payload with a valid checksum is read as the reference says, in
\* tenths: DHT11 gives byte0 and byte2 whole; DHT22 gives byte0*256+byte1 and
\* (byte2 & 0x7F)*256+byte3, the latter negated exactly when bit 7 of byte2
\* is set. Bytes 2,140,0x80,0x32 are -5.0 C; DHT11 bytes 60,0,25,0,85 are
\* 60 % and 25 C.
C8_ReferenceInterpretation ==
    \A p \in Procs :
        (pc[p] = "if_success" /\ waitNo[p] = 2 * DHT_PULSES + 2 /\ success[p] = 1) =>
            LET d == data[p]
            IN  /\ type[p] = DHT11 =>
                      humidity[p] = 10 * d[0] /\ temperature[p] = 10 * d[2]
                /\ type[p] = DHT22 =>
                      /\ humidity[p] = d[0] * 256 + d[1]
                      /\ Bit7(d[2]) = 0 => temperature[p] = d[2] * 256 + d[3]
                      /\ Bit7(d[2]) = 1 =>
                            temperature[p] = 0 - (Low7(d[2]) * 256 + d[3])
                /\ (type[p] = DHT22 /\ d[2] = 128 /\ d[3] = 50) =>
                      temperature[p] = -50
                /\ (type[p] = DHT11 /\ d = [k \in 0 .. 4 |-> <<60, 0, 25, 0, 85>>[k + 1]]) =>
                      humidity[p] = 600 /\ temperature[p] = 250

\* the DHT22 payload 2,140,0x80,0x32,64 read as 65.2 % and -5.0 C
C8_Witness ==
    /\ pc["p1"] = "if_success" /\ success["p1"] = 1 /\ type["p1"] = DHT22
    /\ data["p1"][2] = 128 /\ data["p1"][3] = 50
    /\ humidity["p1"] = 652 /\ temperature["p1"] = -50

\* C6: every way out of the capture restores the default priority: it is
\* in effect during decoding, when pi_dht_read has returned (also by any of
\* the timeouts), in the rest of dht_read and after it.
C6_PriorityRestored ==
    \A p \in Procs :
        pc[p] \in (DecodePcs \cup ReadPcs) => priority[p] = "default"

\* the wait for the low that ends pulse 40 has timed out
C6_Witness ==
    /\ pc["p1"] = "if_success"
    /\ log["p1"] = [kind |-> "Timeout waiting for low", idx |-> DHT_PULSES - 1]
    /\ priority["p1"] = "default"

\* C7 as claimed: the priority is not elevated during the 500 ms sleep, the
\* 20 ms busy wait or the 1 second backoff.
C7_OnlyCaptureWindow ==
    \A p \in Procs :
        pc[p] \in {"sleep_500ms", "busy_wait_20ms", "sleep"}
        => priority[p] = "default"

\* the statements at which the priority is elevated
ElevatedPcs == {"set_high", "sleep_500ms", "set_low", "busy_wait_20ms", "set_input"}
               \cup WaitPcs \cup {"set_default_priority"}

\* C7 as amended: the priority is elevated from set_max_priority(), which
\* follows pi_mmio_set_output and precedes the 500 ms phase, to the end of
\* the capture, so it is in effect during the 500 ms sleep and the 20 ms
\* busy wait, and at no other statement: never during the backoff.
C7_ElevatedFromSetup ==
    \A p \in Procs : (priority[p] = "max") <=> (pc[p] \in ElevatedPcs)

\* the start signal of a second attempt, after one backoff
C7_Witness ==
    /\ pc["p1"] = "busy_wait_20ms" /\ priority["p1"] = "max"
    /\ captures["p1"] = 2 /\ sleeps["p1"] = 1

TimeoutKinds == {"Timeout waiting for response low", "Timeout waiting for high",
                 "Timeout waiting for low", "Timeout waiting for high[release]"}

FullWaits == 2 * DHT_PULSES + 2

\* C9: a wait that returns 0 ends the attempt at once. No statement of the
\* capture is reached with a 0 in the timestamp its predecessor returned;
\* the end of the capture and the decoding are reached only after all 84
\* waits; an attempt that logged a timeout has returned failure without a
\* pass of the compensation loop and without data, the logged index is the
\* index of the wait that timed out, and the pulse widths from that wait on
\* are unwritten; an attempt that made fewer than 84 waits logged a timeout.
C9_TimeoutAborts ==
    \A p \in Procs :
        /\ pc[p] \in {"wait_high", "wait_release"} => lowStartedUs[p] # Zero32
        /\ pc[p] = "wait_low" => highStartedUs[p] # Zero32
        /\ pc[p] \in ({"set_default_priority"} \cup DecodePcs) =>
              /\ waitNo[p] = FullWaits
              /\ highStartedUs[p] # Zero32 /\ lowStartedUs[p] # Zero32
              /\ log[p] = NoLog
        /\ (pc[p] = "if_success" /\ waitNo[p] < FullWaits) => log[p].kind \in TimeoutKinds
        /\ log[p].kind \in TimeoutKinds =>
              /\ pc[p] = "if_success" /\ success[p] = 0
              /\ passes[p] = 0 /\ threshold[p] = Zero32 /\ data[p] = NoData
              /\ humidity[p] = 0 /\ temperature[p] = 0
        /\ log[p].kind = "Timeout waiting for response low" =>
              waitNo[p] = 1 /\ lowStartedUs[p] = Zero32 /\ lowMicros[p] = NoLow
        /\ log[p].kind = "Timeout waiting for high" =>
              /\ log[p].idx \in HighIdx /\ waitNo[p] = 2 * log[p].idx + 2
              /\ highStartedUs[p] = Zero32
              /\ \A k \in LowIdx : k >= log[p].idx => lowMicros[p][k] = Zero32
              /\ \A k \in HighIdx : k >= log[p].idx => highMicros[p][k] = Zero32
              /\ \A k \in HighIdx : k < log[p].idx => highMicros[p][k] # Zero32
        /\ log[p].kind = "Timeout waiting for low" =>
              /\ log[p].idx \in HighIdx /\ waitNo[p] = 2 * log[p].idx + 3
              /\ lowStartedUs[p] = Zero32
              /\ \A k \in LowIdx : k > log[p].idx => lowMicros[p][k] = Zero32
              /\ \A k \in HighIdx : k >= log[p].idx => highMicros[p][k] = Zero32
              /\ \A k \in LowIdx : k <= log[p].idx => lowMicros[p][k] # Zero32
        /\ log[p].kind = "Timeout waiting for high[release]" =>
              /\ waitNo[p] = FullWaits /\ highStartedUs[p] = Zero32
              /\ lowMicros[p][DHT_PULSES] = Zero32

\* the wait for the high of pulse 17 has timed out, in a third attempt
C9_Witness ==
    /\ pc["p1"] = "if_success" /\ captures["p1"] = 3
    /\ log["p1"] = [kind |-> "Timeout waiting for high", idx |-> 17]
    /\ waitNo["p1"] = 36

\* C10: a call with a null pointer does nothing but log and return failure:
\* no pi_mmio_init, no open_lockfile, no pi_dht_read, no GPIO access, no
\* sleep; a call whose pi_mmio_init fails returns failure at once: no
\* open_lockfile, no pi_dht_read, no GPIO access, no sleep.
C10_ShortCircuit ==
    \A p \in Procs :
        LET untouched ==
                /\ success[p] = 0 /\ captures[p] = 0 /\ sleeps[p] = 0
                /\ lockFails[p] = 0 /\ releases[p] = 0 /\ lockfd[p] < 0
                /\ fdsOpen[p] = 0 /\ lockOwner # p /\ ~gpioTouched[p]
                /\ priority[p] = "default"
                /\ humidity[p] = EntryValue /\ temperature[p] = EntryValue
        IN  /\ (pHumidity[p] = NULL \/ pTemperature[p] = NULL) =>
                  /\ pc[p] \in {"dht_read", "return", "done"}
                  /\ mmio[p] = "unused" /\ untouched
            /\ mmio[p] = "failed" => (pc[p] = "return" /\ untouched)

\* pi_mmio_init has failed and dht_read is about to return
C10_Witness ==
    /\ pc["p1"] = "return" /\ mmio["p1"] = "failed" /\ success["p1"] = 0
    /\ log["p1"].kind = "MMIO init failed"
    /\ pHumidity["p1"] # NULL /\ pTemperature["p1"] # NULL

\* C11: from open_lockfile's success to close_lockfile the process holds the
\* lock at every step: no step before the one at "unlock" changes lockfd,
\* takes the lock from the process, calls open_lockfile again or calls
\* close_lockfile; close_lockfile is called once, when the while loop has
\* ended (count is -1), after a success as after ten attempts.
C11_LockHeldAcrossRetries ==
    [][\A p \in Procs :
          /\ (lockfd[p] >= 0 /\ pc[p] \notin {"unlock", "return"}) =>
                /\ lockOwner = p /\ releases[p] = 0
                /\ lockOwner' = p /\ lockfd'[p] = lockfd[p]
                /\ releases'[p] = 0 /\ lockFails'[p] = lockFails[p]
                /\ fdsOpen'[p] = fdsOpen[p]
          /\ (lockfd[p] >= 0 /\ pc[p] = "unlock" /\ pc'[p] # "unlock") =>
                /\ lockOwner = p /\ releases[p] = 0 /\ count[p] = -1
                /\ lockOwner' # p /\ releases'[p] = 1 /\ pc'[p] = "return"
          /\ (releases'[p] > releases[p]) => pc[p] = "unlock"
          /\ releases'[p] <= 1]_vars

\* the lock was refused twice, taken at the third attempt, kept over eight
\* failing attempts and released once
C11_Witness ==
    /\ pc["p1"] = "return" /\ success["p1"] = 0
    /\ lockFails["p1"] = 2 /\ captures["p1"] = 8 /\ sleeps["p1"] = 9
    /\ releases["p1"] = 1 /\ lockOwner # "p1"

\* the passes of the while loop of dht_read entered so far, read from count
\* (while no success has set count to 0)
AttemptsEntered(p) == RETRY_COUNT - count[p]

\* C13: a refused lock costs one of the ten attempts and nothing else. While
\* the process has no lock, every attempt entered so far called
\* open_lockfile and was refused, no capture has run and no GPIO access was
\* made; the refused attempt goes on to the if (count > 0) test; the loop is
\* left only on count, so after ten refusals at the earliest; refusals and
\* captures together never exceed ten, and are ten when dht_read fails.
C13_LockFailureIsAnAttempt ==
    \A p \in Procs :
        /\ lockFails[p] + captures[p] <= RETRY_COUNT
        /\ (mmio[p] = "ok" /\ lockfd[p] < 0 /\ pc[p] # "return") =>
              /\ captures[p] = 0 /\ ~gpioTouched[p] /\ success[p] = 0
              /\ pc[p] \in {"while", "lock", "if_locked", "if_count", "sleep", "unlock"}
              /\ pc[p] \in {"if_locked", "if_count", "sleep"} =>
                    lockFails[p] = AttemptsEntered(p)
              /\ pc[p] = "lock" => lockFails[p] = AttemptsEntered(p) - 1
              /\ pc[p] = "while" => lockFails[p] = AttemptsEntered(p)
              /\ pc[p] = "unlock" => lockFails[p] = RETRY_COUNT /\ count[p] = -1
        /\ (mmio[p] = "ok" /\ success[p] = 0
                /\ pc[p] \in {"if_count", "sleep", "while"}) =>
              lockFails[p] + captures[p] = AttemptsEntered(p)
        /\ (mmio[p] = "ok" /\ pc[p] = "return" /\ success[p] = 0) =>
              lockFails[p] + captures[p] = RETRY_COUNT

\* three refusals, then the lock and a failing capture, and the backoff
C13_Witness ==
    /\ pc["p1"] = "sleep" /\ lockFails["p1"] = 3 /\ captures["p1"] = 1
    /\ count["p1"] = RETRY_COUNT - 4 /\ success["p1"] = 0 /\ lockfd["p1"] >= 0

\* the statements that may follow a statement of the capture attempt
CaptureOrder(at, idx) ==
    CASE at = "set_output" -> {"set_max_priority"}
      [] at = "set_max_priority" -> {"set_high"}
      [] at = "set_high" -> {"sleep_500ms"}
      [] at = "sleep_500ms" -> {"set_low"}
      [] at = "set_low" -> {"busy_wait_20ms"}
      [] at = "busy_wait_20ms" -> {"set_input"}
      [] at = "set_input" -> {"wait_ack"}
      [] at = "wait_ack" -> {"wait_high", "if_success"}
      [] at = "wait_high" -> {"wait_low", "if_success"}
      [] at = "wait_low" -> {IF idx < DHT_PULSES - 1 THEN "wait_high" ELSE "wait_release",
                             "if_success"}
      [] at = "wait_release" -> {"set_default_priority", "if_success"}
      [] OTHER -> ReadPcs \cup AttemptPcs

\* the level the wait at a statement waits for
TargetLevel(at) == IF at \in {"wait_ack", "wait_low"} THEN "low" ELSE "high"

\* C14: the statements of an attempt follow each other in the order of the
\* protocol (a wait may also end the attempt); the pin is an output driven
\* high during the 500 ms sleep and driven low during the 20 ms busy wait;
\* no wait is made before the pin is an input; the acknowledgement is wait
\* 1, the high and the low of pulse i are waits 2i+2 and 2i+3, the release
\* is wait 84, so the odd waits are for low and the even ones for high, and
\* the capture is complete after exactly 84 waits.
C14_ProtocolOrder ==
    /\ [](\A p \in Procs :
            /\ pc[p] \in StartPcs => waitNo[p] = 0
            /\ pc[p] \in {"set_max_priority", "set_high"} => pinMode = "output"
            /\ pc[p] \in {"sleep_500ms", "set_low"} =>
                  pinMode = "output" /\ pinOut = "high"
            /\ pc[p] \in {"busy_wait_20ms", "set_input"} =>
                  pinMode = "output" /\ pinOut = "low"
            /\ (pc[p] \in WaitPcs \/ waitNo[p] > 0) => pinMode = "input"
            /\ pc[p] = "wait_ack" => waitNo[p] = 0
            /\ pc[p] = "wait_high" => i[p] \in HighIdx /\ waitNo[p] = 2 * i[p] + 1
            /\ pc[p] = "wait_low" => i[p] \in HighIdx /\ waitNo[p] = 2 * i[p] + 2
            /\ pc[p] = "wait_release" =>
                  i[p] = DHT_PULSES /\ waitNo[p] = 2 * DHT_PULSES + 1
            /\ pc[p] \in WaitPcs =>
                  TargetLevel(pc[p]) = (IF waitNo[p] % 2 = 0 THEN "low" ELSE "high")
            /\ pc[p] \in ({"set_default_priority"} \cup DecodePcs) => waitNo[p] = FullWaits)
    /\ [][\A p \in Procs :
            /\ pc'[p] \in CaptureOrder(pc[p], i[p])
            /\ pc'[p] = "set_output" => pc[p] = "if_locked"
            /\ (pc[p] \in WaitPcs /\ pc'[p] # pc[p]) => waitNo'[p] = waitNo[p] + 1
            /\ pc[p] \notin WaitPcs => (waitNo'[p] = waitNo[p] \/ waitNo'[p] = 0)]_vars

\* a capture of all 41 pulses is complete
C14_Witness ==
    /\ pc["p1"] = "set_default_priority" /\ waitNo["p1"] = FullWaits
    /\ i["p1"] = DHT_PULSES /\ pinMode = "input"
    /\ lowMicros["p1"][DHT_PULSES] # Zero32

\* C19: when dht_read returns, the process has no descriptor open on the
\* lock file that the call opened.
C19_NoDescriptorLeft ==
    \A p \in Procs : pc[p] \in {"return", "done"} => fdsOpen[p] = 0

\* C20: with a type that is neither DHT11 nor DHT22, a fully captured frame
\* whose checksum is right makes pi_dht_read return 1 with both outputs still
\* 0; dht_read then sets count to 0, makes no further attempt and no sleep,
\* and returns 1 with the outputs 0.
C20_UnknownTypeSucceeds ==
    \A p \in Procs :
        type[p] \notin {DHT11, DHT22} =>
            /\ (pc[p] = "if_success" /\ waitNo[p] = FullWaits
                    /\ log[p].kind \notin TimeoutKinds) =>
                  LET d   == data[p]
                      sum == d[0] + d[1] + d[2] + d[3]
                  IN  (d[4] = sum - 256 * (sum \div 256)) =>
                         (success[p] = 1 /\ humidity[p] = 0 /\ temperature[p] = 0)
            /\ success[p] = 1 =>
                  /\ humidity[p] = 0 /\ temperature[p] = 0
                  /\ pc[p] \in {"if_success", "if_count", "while", "unlock", "return", "done"}
                  /\ pc[p] = "if_count" => count[p] = 0
                  /\ pc[p] = "while" => count[p] = 0
                  /\ pc[p] = "unlock" => count[p] = -1

\* the second attempt of a call with type 0 succeeded and dht_read returns 1
C20_Witness ==
    /\ pc["p1"] = "return" /\ type["p1"] = 0 /\ success["p1"] = 1
    /\ captures["p1"] = 2 /\ sleeps["p1"] = 1 /\ releases["p1"] = 1
    /\ humidity["p1"] = 0 /\ temperature["p1"] = 0

\* bit b (7 the highest) of a byte
BitOf(byte, b) == (byte \div (2 ^ b)) % 2

\* C15: after the extraction, bit 7-j of data[k] is 1 exactly when
\* highMicros[8k+j+1] >= threshold, for k in 0..4 and j in 0..7: the 40 bits
\* come from pulses 1..40 in capture order, the first of each eight in bit 7.
\* Pulse 0 gives no bit and no threshold: the threshold and the data are
\* what they would be with any other lowMicros[0] and highMicros[0].
C15_BigEndianExtraction ==
    \A p \in Procs :
        (pc[p] = "checksum") =>
            /\ \A k \in 0 .. (DHT_BYTES - 1) : \A j \in 0 .. 7 :
                  (BitOf(data[p][k], 7 - j) = 1)
                      <=> ~Lt32(highMicros[p][8 * k + j + 1], threshold[p])
            /\ \A k \in 0 .. (DHT_BYTES - 1) : data[p][k] \in 0 .. 255
            /\ threshold[p] = Threshold([lowMicros[p] EXCEPT ![0] = UINT32_MAX])
            /\ data[p] = ExtractBits([highMicros[p] EXCEPT ![0] = UINT32_MAX],
                                     threshold[p])

\* the DHT22 frame 2,140,0x80,0x32,64: byte 0 is 00000010, its 1 from pulse 7
C15_Witness ==
    /\ pc["p1"] = "checksum"
    /\ data["p1"][0] = 2 /\ data["p1"][1] = 140 /\ data["p1"][2] = 128
    /\ highMicros["p1"][7] = U32(ONE_US) /\ highMicros["p1"][8] = U32(ZERO_US)
    /\ highMicros["p1"][0] = U32(MARKER_US)

\* a + b as an integer of three 16-bit digits: equal exactly when the two
\* sums are equal without reduction modulo 2^32
Wide(a, b) ==
    LET lo == a[2] + b[2]
        hi == a[1] + b[1] + (lo \div Half)
    IN  <<hi \div Half, hi % Half, lo % Half>>

\* C17: every adjustment of a pass moves duration inside one pair, without
\* wrap-around. In a pass with threshold t, an index i whose high was below
\* t and has changed ends with low[i] = t and high[i] >= t, and
\* high[i] + t = old low[i] + old high[i] as integers; an index whose high
\* was at least t and has changed ends with low[i+1] = t and high[i] < t,
\* and high[i] + t = old high[i] + old low[i+1] as integers; a low changes
\* only as part of such a pair; a pass that asks for another pass has
\* changed something.
C17_AdjustmentsMoveWithoutWrap ==
    [][\A p \in Procs :
          (pc[p] = "compensate" /\ pc'[p] \in {"compensate", "extract"}) =>
             LET t == threshold'[p]
                 inHigh(k) == /\ Lt32(highMicros[p][k], t)
                              /\ lowMicros'[p][k] = t
                              /\ ~Lt32(highMicros'[p][k], t)
                              /\ Wide(highMicros'[p][k], t)
                                    = Wide(lowMicros[p][k], highMicros[p][k])
                 inLow(k) ==  /\ ~Lt32(highMicros[p][k], t)
                              /\ lowMicros'[p][k + 1] = t
                              /\ Lt32(highMicros'[p][k], t)
                              /\ Wide(highMicros'[p][k], t)
                                    = Wide(highMicros[p][k], lowMicros[p][k + 1])
             IN  /\ \A k \in DataIdx :
                       highMicros'[p][k] # highMicros[p][k] => (inHigh(k) \/ inLow(k))
                 /\ \A k \in LowIdx :
                       lowMicros'[p][k] # lowMicros[p][k] =>
                          \/ k \in DataIdx /\ highMicros'[p][k] # highMicros[p][k] /\ inHigh(k)
                          \/ k - 1 \in DataIdx /\ highMicros'[p][k - 1] # highMicros[p][k - 1]
                                /\ inLow(k - 1)
                 /\ highMicros'[p][0] = highMicros[p][0]
                 /\ pc'[p] = "compensate" =>
                       (lowMicros'[p] # lowMicros[p] \/ highMicros'[p] # highMicros[p])]_vars

\* the 16-bit halves of low[from] .. low[to], each half summed as integers
RECURSIVE HalfSums(_, _, _)
HalfSums(low, from, to) ==
    IF from = to THEN low[from]
    ELSE LET mid == (from + to) \div 2
             l   == HalfSums(low, from, mid)
             r   == HalfSums(low, mid + 1, to)
         IN  <<l[1] + r[1], l[2] + r[2]>>

\* floor((low[1] + ... + low[40]) / 40) in integers, as <<upper part, low 16 bits>>
ExactMean(low) ==
    LET s  == HalfSums(low, 1, DHT_PULSES - 1)
        hi == s[1] + (s[2] \div Half)
        lo == s[2] % Half
        n  == DHT_PULSES - 1
    IN  <<hi \div n, ((hi % n) * Half + lo) \div n>>

\* x < y for two three-digit integers
WideLess(x, y) ==
    \/ x[1] < y[1]
    \/ x[1] = y[1] /\ x[2] < y[2]
    \/ x[1] = y[1] /\ x[2] = y[2] /\ x[3] < y[3]

\* C16: when the while (needAdjust) loop is left, the threshold the
\* extraction will use is the floor of the mean of lowMicros[1..40] as they
\* are now, and no index 1..40 meets an adjustment condition, the sums taken
\* as integers: not high[i] < threshold with low[i] + high[i] >= 2*threshold,
\* and not high[i] >= threshold with high[i] + low[i+1] < 2*threshold.
C16_ExitIsFixedPoint ==
    \A p \in Procs :
        pc[p] = "extract" =>
            LET t == threshold[p]
            IN  /\ ExactMean(lowMicros[p]) = t
                /\ \A k \in DataIdx :
                      /\ ~(/\ Lt32(highMicros[p][k], t)
                           /\ ~WideLess(Wide(lowMicros[p][k], highMicros[p][k]),
                                        Wide(t, t)))
                      /\ ~(/\ ~Lt32(highMicros[p][k], t)
                           /\ WideLess(Wide(highMicros[p][k], lowMicros[p][k + 1]),
                                       Wide(t, t)))

\* the loop is left after a pass that adjusted a pulse and a pass that
\* found nothing to adjust
C16_Witness ==
    /\ pc["p1"] = "extract" /\ passes["p1"] = 2
    /\ lowMicros["p1"] # frame["p1"].low /\ highMicros["p1"] # frame["p1"].high
    /\ threshold["p1"] = U32(LOW_US)

\* the timestamp the wait made at a statement is stored in
WaitStamp(at, lowStarted, highStarted) ==
    IF at \in {"wait_ack", "wait_low"} THEN lowStarted ELSE highStarted

\* the microseconds the frame lets pass before the level of the wait at a
\* statement is seen
WaitWidth(at, f, idx) ==
    IF at = "wait_ack" THEN U32(AckUs)
    ELSE IF at = "wait_high" THEN f.low[idx]
    ELSE IF at = "wait_low" THEN f.high[idx]
    ELSE f.low[DHT_PULSES]

\* C12: a wait returns 0 only when MAX_WAIT_US microseconds have passed
\* since it started, and then the attempt ends with a timeout; a wait that
\* sees the level before that returns the counter's reading, which is not 0,
\* or 2^32 - 1 when the counter reads 0.
C12_ZeroMeansTimeout ==
    [][\A p \in Procs :
          (pc[p] \in WaitPcs /\ waitNo'[p] = waitNo[p] + 1) =>
             LET ts      == WaitStamp(pc[p], lowStartedUs'[p], highStartedUs'[p])
                 elapsed == Sub32(now', now)
             IN  /\ ts = Zero32 => ~Lt32(elapsed, U32(MAX_WAIT_US))
                 /\ (ts = Zero32) <=> (log'[p].kind \in TimeoutKinds)
                 /\ Lt32(elapsed, U32(MAX_WAIT_US)) =>
                       /\ ts # Zero32
                       /\ now' # Zero32 => ts = now'
                       /\ now' = Zero32 => ts = UINT32_MAX]_vars

\* the acknowledgement was seen at the moment the counter read 0
C12_Witness ==
    /\ pc["p1"] = "wait_high" /\ i["p1"] = 0 /\ waitNo["p1"] = 1
    /\ now = Zero32 /\ lowStartedUs["p1"] = UINT32_MAX

\* C18: with the counter wrapping during the capture, a wait times out
\* exactly when MAX_WAIT_US microseconds have passed since it started, also
\* when the counter reads less at the end of the wait than at its start;
\* each recorded width is the time between its two transitions modulo 2^32,
\* which is the width the line showed, but for one microsecond more when the
\* first of the two readings was 0 and one less when the second was.
C18_WrapKeepsDurations ==
    [][\A p \in Procs :
          (pc[p] \in WaitPcs /\ waitNo'[p] = waitNo[p] + 1) =>
             LET elapsed == Sub32(now', now)
                 width   == WaitWidth(pc[p], frame[p], i[p])
                 rec     == IF pc[p] \in {"wait_high", "wait_release"}
                            THEN lowMicros'[p][i[p]] ELSE highMicros'[p][i[p]]
                 first0  == IF now = Zero32 THEN 1 ELSE 0
                 second0 == IF now' = Zero32 THEN 1 ELSE 0
             IN  /\ (pc'[p] = "if_success") <=> ~Lt32(elapsed, U32(MAX_WAIT_US))
                 /\ pc'[p] # "if_success" => elapsed = width
                 /\ (pc'[p] # "if_success" /\ pc[p] # "wait_ack") =>
                       /\ rec = Sub32(Add32(elapsed, U32(first0)), U32(second0))
                       /\ (first0 = 0 /\ second0 = 0) => rec = width
                       /\ rec \in {width, Add32(width, U32(1)), Sub32(width, U32(1))}
                 /\ (pc[p] \notin WaitPcs \/ pc'[p] = "if_success") =>
                       (lowMicros'[p] = lowMicros[p] /\ highMicros'[p] = highMicros[p])]_vars

\* the high of pulse 0 was seen at the moment the counter read 0: the marker
\* is recorded as 79 and 81 microseconds, and the frame is read as 65.2 %
C18_Witness ==
    /\ pc["p1"] = "if_success" /\ success["p1"] = 1
    /\ lowMicros["p1"][0] = U32(MARKER_US - 1)
    /\ highMicros["p1"][0] = U32(MARKER_US + 1)
    /\ humidity["p1"] = 652 /\ temperature["p1"] = -50

=============================================================================
